---- MODULE Spec2Model ----
(***************************************************************************)
(* A model of the AI fitness advisor: the two rule-based classifiers       *)
(* (api_server.FallbackAdvisor and FitnessAdvisorAgent's fallback), the    *)
(* LLM-backed path of FitnessAdvisorAgent with its reply parsing, the      *)
(* command-line loop of app.py and the HTTP handlers of api_server.py.     *)
(*                                                                         *)
(* Conventions.  sleep_hours is a float in the source; here it is counted  *)
(* in tenths of an hour, and Hours(h) is h hours in that unit.  Python's   *)
(* None is the string NoneValue.  datetime.now() is an input drawn from    *)
(* Timestamps.  A dict is a function from its keys (strings) to values.    *)
(***************************************************************************)
EXTENDS Integers, Sequences, FiniteSets, TLC

VARIABLES
    rule_in,          \* rule-based harness: the arguments of the current call
    rule_out,         \* rule-based harness: what the two classifiers returned
    entry,            \* which program runs: app.py's CLI or fitness_advisor.py's __main__
    openai_installed, \* whether "from openai import OpenAI" succeeds
    cli_pc,           \* where the program stands
    api_key,          \* the api_key the agent was constructed with
    fallback_banner,  \* app.py line 15 was printed ("rule-based recommendations only")
    request,          \* the arguments of the current / last analyze_health_status call
    attempts,         \* chat.completions.create calls made for that request
    outcome,          \* how the external call ended
    result,           \* what analyze_health_status returned
    raised,           \* whether an exception left analyze_health_status
    http_request,     \* api_server.py: the request being served
    http_response,    \* api_server.py: the response sent for it
    call_log,         \* repeated rule-based calls: the latest two, oldest first
    workout_history,  \* api_server.py: the module-level list workout_history
    history_response  \* api_server.py: the last response of POST or GET /history

rule_vars == <<rule_in, rule_out>>

hist_vars == <<workout_history, history_response>>

api_vars == <<http_request, http_response, hist_vars>>

agent_vars ==
    <<entry, openai_installed, cli_pc, api_key, fallback_banner, request, attempts,
      outcome, result, raised>>

vars == <<rule_vars, agent_vars, api_vars, call_log>>

NoneValue == "<None>"

Hours(h) == h * 10

\* How far around each threshold the inputs of the rule-based harness range.
Margin == 1

\* How many distinct clock readings datetime.now() may give (0..MaxClock).
MaxClock == 1

Timestamps == 0..MaxClock

HeartRates == ((85 - Margin)..(85 + Margin)) \cup ((100 - Margin)..(100 + Margin))

SleepValues ==
    ((Hours(4) - Margin)..(Hours(4) + Margin)) \cup ((Hours(6) - Margin)..(Hours(6) + Margin))

StressLevels == (6 - Margin)..(8 + Margin)

Workouts == {NoneValue, "running"}

----------------------------------------------------------------------------
(* api_server.py: FallbackAdvisor.analyze_health_status *)

\* FallbackAdvisor with the high-alert heart-rate test written inclusively.
FallbackAdvisor_inclusive_heart_rate(heart_rate, sleep_hours, stress_level, previous_workout) ==
    IF heart_rate >= 100 \/ sleep_hours < Hours(4) \/ stress_level >= 8
    THEN [alert_level |-> "high",
          should_train |-> FALSE,
          workout |-> "Rest day",
          intensity |-> "very low",
          duration |-> 0,
          message |-> "Rest recommended based on your metrics",
          modifications |-> "Focus on recovery",
          recovery_tips |-> "Hydrate and get good sleep"]
    ELSE IF heart_rate > 85 \/ sleep_hours < Hours(6) \/ stress_level >= 6
    THEN [alert_level |-> "medium",
          should_train |-> TRUE,
          workout |-> "Light cardio (walking, cycling)",
          intensity |-> "low",
          duration |-> 30,
          message |-> "Light activity recommended",
          modifications |-> "Reduce intensity if needed",
          recovery_tips |-> "Listen to your body"]
    ELSE [alert_level |-> "low",
          should_train |-> TRUE,
          workout |-> "Moderate workout",
          intensity |-> "moderate",
          duration |-> 45,
          message |-> "Good condition for training",
          modifications |-> "None needed",
          recovery_tips |-> "Stay hydrated"]

\* FallbackAdvisor letting previous_workout change the low-alert workout.
FallbackAdvisor_avoids_previous(heart_rate, sleep_hours, stress_level, previous_workout) ==
    IF heart_rate > 100 \/ sleep_hours < Hours(4) \/ stress_level >= 8
    THEN [alert_level |-> "high",
          should_train |-> FALSE,
          workout |-> "Rest day",
          intensity |-> "very low",
          duration |-> 0,
          message |-> "Rest recommended based on your metrics",
          modifications |-> "Focus on recovery",
          recovery_tips |-> "Hydrate and get good sleep"]
    ELSE IF heart_rate > 85 \/ sleep_hours < Hours(6) \/ stress_level >= 6
    THEN [alert_level |-> "medium",
          should_train |-> TRUE,
          workout |-> "Light cardio (walking, cycling)",
          intensity |-> "low",
          duration |-> 30,
          message |-> "Light activity recommended",
          modifications |-> "Reduce intensity if needed",
          recovery_tips |-> "Listen to your body"]
    ELSE [alert_level |-> "low",
          should_train |-> TRUE,
          workout |-> IF previous_workout = "running"
                      THEN "Moderate workout (no running)"
                      ELSE "Moderate workout",
          intensity |-> "moderate",
          duration |-> 45,
          message |-> "Good condition for training",
          modifications |-> "None needed",
          recovery_tips |-> "Stay hydrated"]

FallbackAdvisor_analyze_health_status(heart_rate, sleep_hours, stress_level, previous_workout) ==
    IF heart_rate > 100 \/ sleep_hours < Hours(4) \/ stress_level >= 8
    THEN [alert_level |-> "high",
          should_train |-> FALSE,
          workout |-> "Rest day",
          intensity |-> "very low",
          duration |-> 0,
          message |-> "Rest recommended based on your metrics",
          modifications |-> "Focus on recovery",
          recovery_tips |-> "Hydrate and get good sleep"]
    ELSE IF heart_rate > 85 \/ sleep_hours < Hours(6) \/ stress_level >= 6
    THEN [alert_level |-> "medium",
          should_train |-> TRUE,
          workout |-> "Light cardio (walking, cycling)",
          intensity |-> "low",
          duration |-> 30,
          message |-> "Light activity recommended",
          modifications |-> "Reduce intensity if needed",
          recovery_tips |-> "Listen to your body"]
    ELSE [alert_level |-> "low",
          should_train |-> TRUE,
          workout |-> "Moderate workout",
          intensity |-> "moderate",
          duration |-> 45,
          message |-> "Good condition for training",
          modifications |-> "None needed",
          recovery_tips |-> "Stay hydrated"]

----------------------------------------------------------------------------
(* fitness_advisor.py: FitnessAdvisorAgent._get_fallback_recommendation *)

\* The agent's tiers with the high-alert branch still allowing training.
fallback_tier_high_trains(heart_rate, sleep_hours, stress_level) ==
    IF heart_rate > 100 \/ sleep_hours < Hours(4) \/ stress_level >= 8
    THEN [alert_level |-> "high", should_train |-> TRUE,
          workout |-> "Rest day or gentle stretching",
          intensity |-> "very low", duration |-> 15]
    ELSE IF heart_rate > 85 \/ sleep_hours < Hours(6) \/ stress_level >= 6
    THEN [alert_level |-> "medium", should_train |-> TRUE,
          workout |-> "Light cardio (walking, cycling)",
          intensity |-> "low", duration |-> 30]
    ELSE [alert_level |-> "low", should_train |-> TRUE,
          workout |-> "Moderate workout (running, weight training)",
          intensity |-> "moderate", duration |-> 45]

\* The agent's tiers with the high-alert stress test written strictly.
fallback_tier_strict_stress(heart_rate, sleep_hours, stress_level) ==
    IF heart_rate > 100 \/ sleep_hours < Hours(4) \/ stress_level > 8
    THEN [alert_level |-> "high", should_train |-> FALSE,
          workout |-> "Rest day or gentle stretching",
          intensity |-> "very low", duration |-> 15]
    ELSE IF heart_rate > 85 \/ sleep_hours < Hours(6) \/ stress_level >= 6
    THEN [alert_level |-> "medium", should_train |-> TRUE,
          workout |-> "Light cardio (walking, cycling)",
          intensity |-> "low", duration |-> 30]
    ELSE [alert_level |-> "low", should_train |-> TRUE,
          workout |-> "Moderate workout (running, weight training)",
          intensity |-> "moderate", duration |-> 45]

\* The agent's tiers with the high-alert stress test matching 8 only.
fallback_tier_exact_stress(heart_rate, sleep_hours, stress_level) ==
    IF heart_rate > 100 \/ sleep_hours < Hours(4) \/ stress_level = 8
    THEN [alert_level |-> "high", should_train |-> FALSE,
          workout |-> "Rest day or gentle stretching",
          intensity |-> "very low", duration |-> 15]
    ELSE IF heart_rate > 85 \/ sleep_hours < Hours(6) \/ stress_level >= 6
    THEN [alert_level |-> "medium", should_train |-> TRUE,
          workout |-> "Light cardio (walking, cycling)",
          intensity |-> "low", duration |-> 30]
    ELSE [alert_level |-> "low", should_train |-> TRUE,
          workout |-> "Moderate workout (running, weight training)",
          intensity |-> "moderate", duration |-> 45]

\* The tier template chosen by the if / elif / else of lines 152-169.
fallback_tier(heart_rate, sleep_hours, stress_level) ==
    IF heart_rate > 100 \/ sleep_hours < Hours(4) \/ stress_level >= 8
    THEN [alert_level |-> "high", should_train |-> FALSE,
          workout |-> "Rest day or gentle stretching",
          intensity |-> "very low", duration |-> 15]
    ELSE IF heart_rate > 85 \/ sleep_hours < Hours(6) \/ stress_level >= 6
    THEN [alert_level |-> "medium", should_train |-> TRUE,
          workout |-> "Light cardio (walking, cycling)",
          intensity |-> "low", duration |-> 30]
    ELSE [alert_level |-> "low", should_train |-> TRUE,
          workout |-> "Moderate workout (running, weight training)",
          intensity |-> "moderate", duration |-> 45]

\* str() of a float counted in tenths: 65 is "6.5", 60 is "6.0".
float_str(tenths) == ToString(tenths \div 10) \o "." \o ToString(tenths % 10)

\* The f-string of line 174.
fallback_alert_message(heart_rate, sleep_hours, stress_level) ==
    "Based on your metrics: HR=" \o ToString(heart_rate) \o "bpm, Sleep="
        \o float_str(sleep_hours) \o "h, Stress=" \o ToString(stress_level) \o "/10"

\* The input_metrics dict attached at lines 135-140 and 180-185.
agent_input_metrics(heart_rate, sleep_hours, stress_level, now) ==
    [heart_rate_bpm |-> heart_rate,
     sleep_hours |-> sleep_hours,
     stress_level |-> stress_level,
     timestamp |-> now]

get_fallback_recommendation(heart_rate, sleep_hours, stress_level, now) ==
    LET t == fallback_tier(heart_rate, sleep_hours, stress_level) IN
    [alert_level |-> t.alert_level,
     should_train |-> t.should_train,
     alert_message |-> fallback_alert_message(heart_rate, sleep_hours, stress_level),
     recommended_workout |-> t.workout,
     intensity_level |-> t.intensity,
     duration_minutes |-> t.duration,
     modifications |-> "Listen to your body and adjust as needed",
     recovery_tips |-> "Hydrate well and ensure proper nutrition",
     input_metrics |-> agent_input_metrics(heart_rate, sleep_hours, stress_level, now)]

----------------------------------------------------------------------------
(* fitness_advisor.py: the reply of the model and FitnessAdvisorAgent._parse_response *)

\* How many tokens a reply of the model may hold.
MaxReplyLen == 4

\* A reply is a text; here a sequence of tokens: an opening brace, a closing
\* brace, a stretch of prose without braces, or one well-formed "key": value
\* member of a JSON object.
PairTokens ==
    {"alert_level:rest", "should_train:false", "duration_minutes:20", "input_metrics:model"}

ReplyTokens == {"{", "}", "prose"} \cup PairTokens

PairKey(tok) ==
    CASE tok = "alert_level:rest" -> "alert_level"
      [] tok = "should_train:false" -> "should_train"
      [] tok = "duration_minutes:20" -> "duration_minutes"
      [] tok = "input_metrics:model" -> "input_metrics"

PairVal(tok) ==
    CASE tok = "alert_level:rest" -> "rest"
      [] tok = "should_train:false" -> FALSE
      [] tok = "duration_minutes:20" -> 20
      [] tok = "input_metrics:model" -> [source |-> "model"]

\* The replies of the model: every text of at most MaxReplyLen tokens.
Replies == UNION {[1..n -> ReplyTokens] : n \in 0..MaxReplyLen}

\* str.find('{'): the 0-based index of the first opening brace, or -1.
find_open(text) ==
    IF \E i \in 1..Len(text) : text[i] = "{"
    THEN (CHOOSE i \in 1..Len(text) :
             text[i] = "{" /\ \A j \in 1..(i - 1) : text[j] # "{") - 1
    ELSE -1

\* str.rfind('}'): the 0-based index of the last closing brace, or -1.
rfind_close(text) ==
    IF \E i \in 1..Len(text) : text[i] = "}"
    THEN (CHOOSE i \in 1..Len(text) :
             text[i] = "}" /\ \A j \in (i + 1)..Len(text) : text[j] # "}") - 1
    ELSE -1

\* text[start:end] of Python, 0-based and half-open.
py_slice(text, start, end) == SubSeq(text, start + 1, end)

\* The dict json.loads builds from the members of an object: a repeated key
\* keeps its last value.
json_object(members) ==
    [k \in {PairKey(members[i]) : i \in 1..Len(members)} |->
        LET last == CHOOSE i \in 1..Len(members) :
                        /\ PairKey(members[i]) = k
                        /\ \A j \in (i + 1)..Len(members) : PairKey(members[j]) # k
        IN  PairVal(members[last])]

\* json.loads: the text must be one object, an opening brace, members and a
\* closing brace; anything else raises JSONDecodeError.
json_loads(text) ==
    IF /\ Len(text) >= 2
       /\ text[1] = "{"
       /\ text[Len(text)] = "}"
       /\ \A i \in 2..(Len(text) - 1) : text[i] \in PairTokens
    THEN [raised |-> FALSE, value |-> json_object(SubSeq(text, 2, Len(text) - 1))]
    ELSE [raised |-> TRUE, value |-> <<>>]

\* The hardcoded record of lines 123-132.
default_response ==
    [alert_level |-> "medium",
     should_train |-> TRUE,
     alert_message |-> "AI response format issue, using default recommendation",
     recommended_workout |-> "Light cardio (30 min walk/jog)",
     intensity_level |-> "low",
     duration_minutes |-> 30,
     modifications |-> "Reduce intensity if feeling tired",
     recovery_tips |-> "Stay hydrated and monitor how you feel"]

\* Attaching input_metrics while folding the alert level "rest" into "high".
with_input_metrics_folding_rest(response_json, heart_rate, sleep_hours, stress_level, now) ==
    [k \in DOMAIN response_json \cup {"input_metrics"} |->
        IF k = "input_metrics"
        THEN agent_input_metrics(heart_rate, sleep_hours, stress_level, now)
        ELSE IF k = "alert_level" /\ response_json[k] = "rest" THEN "high"
        ELSE response_json[k]]

\* response_json["input_metrics"] = {...}: the key is added or overwritten.
with_input_metrics(response_json, heart_rate, sleep_hours, stress_level, now) ==
    [k \in DOMAIN response_json \cup {"input_metrics"} |->
        IF k = "input_metrics"
        THEN agent_input_metrics(heart_rate, sleep_hours, stress_level, now)
        ELSE response_json[k]]

\* _parse_response with the JSONDecodeError handler returning the generic
\* record instead of the rule-based one.
parse_response_generic_on_error(ai_response, heart_rate, sleep_hours, stress_level, now) ==
    LET json_start == find_open(ai_response)
        json_end == rfind_close(ai_response) + 1
    IN  IF json_start # -1 /\ json_end # 0
        THEN LET loaded == json_loads(py_slice(ai_response, json_start, json_end))
             IN  IF loaded.raised
                 THEN with_input_metrics(default_response, heart_rate, sleep_hours,
                                         stress_level, now)
                 ELSE with_input_metrics(loaded.value, heart_rate, sleep_hours,
                                         stress_level, now)
        ELSE with_input_metrics(default_response, heart_rate, sleep_hours,
                                stress_level, now)

parse_response(ai_response, heart_rate, sleep_hours, stress_level, now) ==
    LET json_start == find_open(ai_response)
        json_end == rfind_close(ai_response) + 1
    IN  IF json_start # -1 /\ json_end # 0
        THEN LET loaded == json_loads(py_slice(ai_response, json_start, json_end))
             IN  IF loaded.raised
                 THEN get_fallback_recommendation(heart_rate, sleep_hours, stress_level, now)
                 ELSE with_input_metrics(loaded.value, heart_rate, sleep_hours,
                                         stress_level, now)
        ELSE with_input_metrics(default_response, heart_rate, sleep_hours,
                                stress_level, now)

----------------------------------------------------------------------------
(* fitness_advisor.py: FitnessAdvisorAgent.__init__ and analyze_health_status *)

\* The credentials the remote service accepts; only the service knows them.
ValidKeys == {"sk-valid"}

\* What the user may type at the prompt of app.py line 12, after strip().
TypedKeys == {"", "sk-valid", "sk-revoked"}

\* __init__: the import of openai is the only thing that can fail; the
\* OpenAI client stores api_key without contacting the service.
agent_init_checks_key(key) ==
    IF ~openai_installed THEN "ImportError"
    ELSE IF key \in ValidKeys THEN "constructed"
    ELSE "AuthenticationError"

agent_init(key) ==
    IF openai_installed THEN "constructed" ELSE "ImportError"

\* The requests the front ends make: the three examples of main() (lines
\* 271-296), the quick test of line 310 and a medium-alert triple.
SampleMetrics ==
    {[heart_rate |-> 65, sleep_hours |-> 75, stress_level |-> 3],
     [heart_rate |-> 78, sleep_hours |-> 45, stress_level |-> 8],
     [heart_rate |-> 105, sleep_hours |-> 60, stress_level |-> 5],
     [heart_rate |-> 88, sleep_hours |-> 55, stress_level |-> 6]}

AgentRequests ==
    {[heart_rate |-> m.heart_rate, sleep_hours |-> m.sleep_hours,
      stress_level |-> m.stress_level, previous_workout |-> w] :
        m \in SampleMetrics, w \in Workouts}

\* How chat.completions.create can end: it raises (network error, timeout,
\* non-2xx status, rejected credential), or it returns a reply whose content
\* is a text or None.  The service rejects every key that is not valid.
CallFailures == {"network", "timeout", "http_error", "auth"}

NoOutcome == [kind |-> "none", text |-> <<>>]

Outcomes(key) ==
    {[kind |-> f, text |-> <<>>] : f \in {"network", "timeout", "http_error"}}
    \cup (IF key \in ValidKeys
          THEN {[kind |-> "reply", text |-> t] : t \in Replies}
               \cup {[kind |-> "null_content", text |-> <<>>]}
          ELSE {[kind |-> "auth", text |-> <<>>]})

NoRequest == [none |-> TRUE]

NoResult == [none |-> TRUE]

\* The try / except of lines 42-60 with the external call made and ended with
\* `out`.  A None content makes _parse_response raise AttributeError, which the
\* except of line 58 catches like a failure of the call itself.
analyze_health_status_propagates(out, m, now) ==
    IF out.kind = "reply"
    THEN [raised |-> FALSE,
          value |-> parse_response(out.text, m.heart_rate, m.sleep_hours,
                                   m.stress_level, now)]
    ELSE [raised |-> TRUE, value |-> NoResult]

analyze_health_status_return(out, m, now) ==
    IF out.kind = "reply"
    THEN [raised |-> FALSE,
          value |-> parse_response(out.text, m.heart_rate, m.sleep_hours,
                                   m.stress_level, now)]
    ELSE [raised |-> FALSE,
          value |-> get_fallback_recommendation(m.heart_rate, m.sleep_hours,
                                                m.stress_level, now)]

----------------------------------------------------------------------------
(* app.py: interactive_cli, and the quick test of fitness_advisor.py's __main__ *)

NoRequestYet == [route |-> "none"]

NoResponse == [status |-> 0]

NoHistoryResponse == [route |-> "none"]

HistoryIdle ==
    /\ workout_history = <<>>
    /\ history_response = NoHistoryResponse

ApiIdle ==
    /\ http_request = NoRequestYet
    /\ http_response = NoResponse
    /\ HistoryIdle

RuleIdle ==
    /\ rule_in = [none |-> TRUE]
    /\ rule_out = [called |-> FALSE]

AgentIdle ==
    /\ entry = "cli"
    /\ openai_installed = TRUE
    /\ cli_pc = "start"
    /\ api_key = NoneValue
    /\ fallback_banner = FALSE
    /\ request = NoRequest
    /\ attempts = 0
    /\ outcome = NoOutcome
    /\ result = NoResult
    /\ raised = FALSE

InitAgent ==
    /\ entry \in {"cli", "main"}
    /\ openai_installed \in BOOLEAN
    /\ cli_pc = "start"
    /\ api_key = NoneValue
    /\ fallback_banner = FALSE
    /\ request = NoRequest
    /\ attempts = 0
    /\ outcome = NoOutcome
    /\ result = NoResult
    /\ raised = FALSE
    /\ RuleIdle
    /\ ApiIdle
    /\ call_log = <<>>

\* Lines 12-18: read the key, fall back to "dummy-key", construct the agent.
\* An exception of the constructor is not caught: the program ends.
interactive_cli_start(typed) ==
    /\ entry = "cli"
    /\ cli_pc = "start"
    /\ LET key == IF typed = "" THEN "dummy-key" ELSE typed
       IN  /\ fallback_banner' = (typed = "")
           /\ api_key' = key
           /\ cli_pc' = IF agent_init(key) = "constructed" THEN "ready" ELSE "crashed"
    /\ UNCHANGED <<entry, openai_installed, request, attempts, outcome, result, raised,
                   rule_vars, api_vars, call_log>>

\* Lines 27-43 of app.py and 40-51 of fitness_advisor.py: the metrics are
\* read, the prompt is built and chat.completions.create is called.
analyze_health_status_call(m) ==
    /\ entry = "cli"
    /\ cli_pc = "ready"
    /\ request' = m
    /\ attempts' = 1
    /\ outcome' = NoOutcome
    /\ result' = NoResult
    /\ raised' = FALSE
    /\ cli_pc' = "awaiting"
    /\ UNCHANGED <<entry, openai_installed, api_key, fallback_banner, rule_vars, api_vars, call_log>>

\* Lines 53-60: the call has ended; the reply is parsed or the fallback taken,
\* and the CLI displays the record (or prints the error, line 59 of app.py).
analyze_health_status_end ==
    /\ cli_pc = "awaiting"
    /\ \E out \in Outcomes(api_key), now \in Timestamps :
          LET r == analyze_health_status_return(out, request, now)
          IN  /\ result' = r.value
              /\ raised' = r.raised
              /\ outcome' = out
    /\ cli_pc' = "ready"
    /\ UNCHANGED <<entry, openai_installed, api_key, fallback_banner, request, attempts,
                   rule_vars, api_vars, call_log>>

\* Lines 49-52 and 56-58 of app.py: the user stops the loop.
interactive_cli_exit ==
    /\ entry = "cli"
    /\ cli_pc = "ready"
    /\ cli_pc' = "exited"
    /\ UNCHANGED <<entry, openai_installed, api_key, fallback_banner, request, attempts,
                   outcome, result, raised, rule_vars, api_vars, call_log>>

\* Lines 307-311 of fitness_advisor.py: an agent built with the key "test"
\* answers _get_fallback_recommendation(72, 6.5, 4) without calling out.
main_quick_test(now) ==
    /\ entry = "main"
    /\ cli_pc = "start"
    /\ api_key' = "test"
    /\ IF agent_init("test") = "constructed"
       THEN /\ request' = [heart_rate |-> 72, sleep_hours |-> 65, stress_level |-> 4,
                           previous_workout |-> NoneValue]
            /\ result' = get_fallback_recommendation(72, 65, 4, now)
            /\ cli_pc' = "exited"
       ELSE /\ cli_pc' = "crashed"
            /\ UNCHANGED <<request, result>>
    /\ UNCHANGED <<entry, openai_installed, fallback_banner, attempts, outcome, raised,
                   rule_vars, api_vars, call_log>>

NextAgent ==
    \/ \E typed \in TypedKeys : interactive_cli_start(typed)
    \/ \E m \in AgentRequests : analyze_health_status_call(m)
    \/ analyze_health_status_end
    \/ interactive_cli_exit
    \/ \E now \in Timestamps : main_quick_test(now)

SpecAgent == InitAgent /\ [][NextAgent]_vars

----------------------------------------------------------------------------
(* api_server.py: the advisor and the handlers of /recommend, /batch and /test *)

\* How many items a /batch request may hold.
MaxBatch == 3

\* HealthMetrics objects the clients send.  An Optional[int] is a sequence,
\* empty for None.  The first is the sample of test_endpoint (lines 187-193).
ApiMetrics ==
    {[heart_rate |-> 72, sleep_hours |-> 75, stress_level |-> 4,
      previous_workout |-> "running", user_id |-> "test_user", age |-> <<>>,
      fitness_level |-> "intermediate"],
     [heart_rate |-> 105, sleep_hours |-> 60, stress_level |-> 5,
      previous_workout |-> NoneValue, user_id |-> NoneValue, age |-> <<30>>,
      fitness_level |-> "intermediate"],
     [heart_rate |-> 88, sleep_hours |-> 55, stress_level |-> 6,
      previous_workout |-> "weight training", user_id |-> "u1", age |-> <<>>,
      fitness_level |-> "beginner"]}

test_metrics ==
    [heart_rate |-> 72, sleep_hours |-> 75, stress_level |-> 4,
     previous_workout |-> "running", user_id |-> "test_user", age |-> <<>>,
     fitness_level |-> "intermediate"]

\* Lines 13-58: SimpleFitnessAdvisor is not in fitness_advisor.py, the import
\* fails and advisor is a FallbackAdvisor.  `fault` says that the call raises
\* (the case the handlers' except clauses are written for).
advisor_analyze_health_status(metrics, fault) ==
    IF fault
    THEN [raised |-> TRUE, value |-> "advisor failure"]
    ELSE [raised |-> FALSE,
          value |-> FallbackAdvisor_analyze_health_status(
                        metrics.heart_rate, metrics.sleep_hours,
                        metrics.stress_level, metrics.previous_workout)]

\* d[k] = v for each k of `more`, the other keys of d kept.
dict_update(d, more) ==
    [k \in DOMAIN d \cup DOMAIN more |-> IF k \in DOMAIN more THEN more[k] ELSE d[k]]

\* Lines 119-122: a required field the advisor left out becomes "N/A".
fill_required(d) ==
    LET required_fields == {"alert_level", "should_train", "workout", "intensity", "duration"}
    IN  [k \in DOMAIN d \cup required_fields |-> IF k \in DOMAIN d THEN d[k] ELSE "N/A"]

\* Lines 108-143.
get_recommendation(metrics, fault, t_stamp, t_id) ==
    LET called == advisor_analyze_health_status(metrics, fault)
    IN  IF called.raised
        THEN [status |-> 500, body |-> [detail |-> called.value]]
        ELSE [status |-> 200,
              body |-> dict_update(fill_required(called.value),
                         [api_version |-> "1.0",
                          timestamp |-> t_stamp,
                          request_id |-> t_id,
                          user_id |-> metrics.user_id,
                          input_metrics |->
                              [heart_rate |-> metrics.heart_rate,
                               sleep_hours |-> metrics.sleep_hours,
                               stress_level |-> metrics.stress_level,
                               previous_workout |-> metrics.previous_workout,
                               age |-> metrics.age,
                               fitness_level |-> metrics.fitness_level]])]

\* Lines 153-173: the entry one item of the batch leaves in results.
batch_entry(metrics, fault, t) ==
    LET called == advisor_analyze_health_status(metrics, fault)
    IN  IF called.raised
        THEN [error |-> called.value,
              user_id |-> metrics.user_id,
              heart_rate |-> metrics.heart_rate,
              sleep_hours |-> metrics.sleep_hours,
              stress_level |-> metrics.stress_level]
        ELSE dict_update(called.value,
                 [user_id |-> metrics.user_id, request_timestamp |-> t])

\* The loop of lines 151-173 with a failing item ending the loop.
RECURSIVE batch_loop_stops_at_failure(_, _, _, _)
batch_loop_stops_at_failure(metrics_list, faults, times, results) ==
    IF metrics_list = <<>> THEN results
    ELSE IF Head(faults)
    THEN Append(results, batch_entry(Head(metrics_list), Head(faults), Head(times)))
    ELSE batch_loop_stops_at_failure(Tail(metrics_list), Tail(faults), Tail(times),
             Append(results, batch_entry(Head(metrics_list), Head(faults), Head(times))))

\* The loop of lines 151-173: every item appends one entry, in order.
RECURSIVE batch_loop(_, _, _, _)
batch_loop(metrics_list, faults, times, results) ==
    IF metrics_list = <<>> THEN results
    ELSE batch_loop(Tail(metrics_list), Tail(faults), Tail(times),
             Append(results, batch_entry(Head(metrics_list), Head(faults), Head(times))))

\* Lines 146-181.
batch_recommendations(metrics_list, faults, times, t_id) ==
    LET results == batch_loop(metrics_list, faults, times, <<>>)
    IN  [status |-> 200,
         body |-> [batch_id |-> t_id,
                   total_requests |-> Len(metrics_list),
                   successful |->
                       Cardinality({i \in 1..Len(results) : "error" \notin DOMAIN results[i]}),
                   failed |->
                       Cardinality({i \in 1..Len(results) : "error" \in DOMAIN results[i]}),
                   results |-> results]]

\* Lines 184-206; an exception of the advisor is not caught by the handler and
\* the framework answers 500.
test_endpoint(fault) ==
    LET called == advisor_analyze_health_status(test_metrics, fault)
    IN  IF called.raised
        THEN [status |-> 500, body |-> [detail |-> "Internal Server Error"]]
        ELSE [status |-> 200,
              body |-> [test |-> "successful",
                        sample_data |-> test_metrics,
                        recommendation |-> called.value]]

\* The requests a client can send: the route, the HealthMetrics of the body,
\* whether the advisor fails on each, and the clock readings of the handler.
RecommendRequests ==
    [route : {"/recommend"}, metrics_list : [1..1 -> ApiMetrics],
     faults : [1..1 -> BOOLEAN], times : [1..1 -> Timestamps], t_id : Timestamps]

TestRequests ==
    [route : {"/test"}, metrics_list : {<<>>}, faults : [1..1 -> BOOLEAN],
     times : {<<>>}, t_id : {0}]

BatchRequests(n) ==
    [route : {"/batch"}, metrics_list : [1..n -> ApiMetrics],
     faults : [1..n -> BOOLEAN], times : [1..n -> Timestamps], t_id : Timestamps]

InitApi ==
    /\ \/ http_request \in RecommendRequests
       \/ http_request \in TestRequests
       \/ \E n \in 0..MaxBatch : http_request \in BatchRequests(n)
    /\ http_response = NoResponse
    /\ HistoryIdle
    /\ RuleIdle
    /\ AgentIdle
    /\ call_log = <<>>

serve_recommend ==
    /\ http_request.route = "/recommend"
    /\ http_response = NoResponse
    /\ http_response' = get_recommendation(http_request.metrics_list[1],
                            http_request.faults[1], http_request.times[1],
                            http_request.t_id)
    /\ UNCHANGED <<http_request, hist_vars, rule_vars, agent_vars, call_log>>

serve_batch ==
    /\ http_request.route = "/batch"
    /\ http_response = NoResponse
    /\ http_response' = batch_recommendations(http_request.metrics_list,
                            http_request.faults, http_request.times, http_request.t_id)
    /\ UNCHANGED <<http_request, hist_vars, rule_vars, agent_vars, call_log>>

serve_test ==
    /\ http_request.route = "/test"
    /\ http_response = NoResponse
    /\ http_response' = test_endpoint(http_request.faults[1])
    /\ UNCHANGED <<http_request, hist_vars, rule_vars, agent_vars, call_log>>

NextApi == serve_recommend \/ serve_batch \/ serve_test

SpecApi == InitApi /\ [][NextApi]_vars

----------------------------------------------------------------------------
(* api_server.py: the in-memory history, POST /history and GET /history *)

\* How many entries the history may hold.
MaxHistory == 3

\* The HealthMetrics saved: the sample of test_endpoint under each kind of
\* user_id (absent, empty, given).
HistoryMetrics == {[test_metrics EXCEPT !.user_id = u] : u \in {NoneValue, "", "u1"}}

\* The recommendation dicts the clients post with them.
HistoryRecommendations == {[alert_level |-> "low"], [alert_level |-> "rest"]}

\* The user_id query parameters of GET /history.
HistoryQueries == {NoneValue, "", "u1", "anonymous", "u2"}

\* Python's truth value of an Optional[str].
truthy(str) == str # NoneValue /\ str # ""

\* The entry of lines 214-220 with the id counted from zero.
history_entry_zero_based(metrics, recommendation, now, history) ==
    [id |-> Len(history),
     timestamp |-> now,
     user_id |-> IF truthy(metrics.user_id) THEN metrics.user_id ELSE "anonymous",
     metrics |-> metrics,
     recommendation |-> recommendation]

\* Lines 214-220.
history_entry(metrics, recommendation, now, history) ==
    [id |-> Len(history) + 1,
     timestamp |-> now,
     user_id |-> IF truthy(metrics.user_id) THEN metrics.user_id ELSE "anonymous",
     metrics |-> metrics,
     recommendation |-> recommendation]

\* Lines 227-230: the body GET /history answers with.
history_body(user_id, history) ==
    IF truthy(user_id)
    THEN [user_id |-> user_id,
          entries |-> SelectSeq(history, LAMBDA h : h.user_id = user_id)]
    ELSE [total_entries |-> Len(history), entries |-> history]

\* Lines 211-222.
save_to_history(metrics, recommendation, now) ==
    /\ Len(workout_history) < MaxHistory
    /\ LET new == history_entry(metrics, recommendation, now, workout_history)
       IN  /\ workout_history' = Append(workout_history, new)
           /\ history_response' =
                [route |-> "POST /history", user_id |-> metrics.user_id,
                 body |-> [status |-> "saved", entry_id |-> new.id]]
    /\ UNCHANGED <<http_request, http_response, rule_vars, agent_vars, call_log>>

\* Lines 224-230.
get_history(user_id) ==
    /\ history_response' =
         [route |-> "GET /history", user_id |-> user_id,
          body |-> history_body(user_id, workout_history)]
    /\ UNCHANGED <<workout_history, http_request, http_response, rule_vars, agent_vars,
                   call_log>>

InitHistory ==
    /\ HistoryIdle
    /\ http_request = NoRequestYet
    /\ http_response = NoResponse
    /\ RuleIdle
    /\ AgentIdle
    /\ call_log = <<>>

NextHistory ==
    \/ \E m \in HistoryMetrics, r \in HistoryRecommendations, now \in Timestamps :
           save_to_history(m, r, now)
    \/ \E u \in HistoryQueries : get_history(u)

SpecHistory == InitHistory /\ [][NextHistory]_vars

----------------------------------------------------------------------------
(* Repeated rule-based calls: either classifier is called again and again,   *)
(* and the latest two calls are kept.                                         *)

latest(log) == IF Len(log) = 0 THEN <<>> ELSE <<log[Len(log)]>>

call_FallbackAdvisor(m, previous_workout) ==
    /\ call_log' = Append(latest(call_log),
           [impl |-> "FallbackAdvisor", metrics |-> m,
            previous_workout |-> previous_workout, now |-> 0,
            out |-> FallbackAdvisor_analyze_health_status(
                        m.heart_rate, m.sleep_hours, m.stress_level, previous_workout)])
    /\ UNCHANGED <<rule_vars, agent_vars, api_vars>>

call_get_fallback_recommendation(m, now) ==
    /\ call_log' = Append(latest(call_log),
           [impl |-> "FitnessAdvisorAgent", metrics |-> m,
            previous_workout |-> NoneValue, now |-> now,
            out |-> get_fallback_recommendation(
                        m.heart_rate, m.sleep_hours, m.stress_level, now)])
    /\ UNCHANGED <<rule_vars, agent_vars, api_vars>>

InitRepeat ==
    /\ call_log = <<>>
    /\ RuleIdle
    /\ AgentIdle
    /\ ApiIdle

NextRepeat ==
    \/ \E m \in SampleMetrics, w \in Workouts : call_FallbackAdvisor(m, w)
    \/ \E m \in SampleMetrics, now \in Timestamps : call_get_fallback_recommendation(m, now)

SpecRepeat == InitRepeat /\ [][NextRepeat]_vars

----------------------------------------------------------------------------
(* Two rule-based calls on two triples of the grid around the thresholds:    *)
(* each call runs both classifiers on its triple, and both calls are kept.   *)

GridMetrics ==
    [heart_rate : HeartRates, sleep_hours : SleepValues, stress_level : StressLevels]

classify_triple(m) ==
    /\ Len(call_log) < 2
    /\ call_log' = Append(call_log,
           [metrics |-> m,
            api |-> FallbackAdvisor_analyze_health_status(
                        m.heart_rate, m.sleep_hours, m.stress_level, NoneValue),
            agent |-> get_fallback_recommendation(
                        m.heart_rate, m.sleep_hours, m.stress_level, 0)])
    /\ UNCHANGED <<rule_vars, agent_vars, api_vars>>

InitPairs ==
    /\ call_log = <<>>
    /\ RuleIdle
    /\ AgentIdle
    /\ ApiIdle

NextPairs == \E m \in GridMetrics : classify_triple(m)

SpecPairs == InitPairs /\ [][NextPairs]_vars

----------------------------------------------------------------------------
(* The rule-based harness: one call of each classifier on the same triple. *)

RuleInputs ==
    [heart_rate : HeartRates, sleep_hours : SleepValues, stress_level : StressLevels,
     previous_workout : Workouts, now : Timestamps]

NoOutput == [called |-> FALSE]

InitRules ==
    /\ rule_in \in RuleInputs
    /\ rule_out = NoOutput
    /\ AgentIdle
    /\ ApiIdle
    /\ call_log = <<>>

ApplyRules ==
    /\ rule_out = NoOutput
    /\ rule_out' =
         [called |-> TRUE,
          api |-> FallbackAdvisor_analyze_health_status(
                      rule_in.heart_rate, rule_in.sleep_hours,
                      rule_in.stress_level, rule_in.previous_workout),
          agent |-> get_fallback_recommendation(
                      rule_in.heart_rate, rule_in.sleep_hours,
                      rule_in.stress_level, rule_in.now)]
    /\ UNCHANGED <<rule_in, agent_vars, api_vars, call_log>>

NextRules == ApplyRules

SpecRules == InitRules /\ [][NextRules]_vars

----------------------------------------------------------------------------
(* Claims about the rule-based classifiers (SpecRules). *)

\* The alert level the specification's decision order gives a triple.
ExpectedAlert(hr, sl, st) ==
    CASE hr > 100 \/ sl < Hours(4) \/ st >= 8 -> "high"
      [] ~(hr > 100 \/ sl < Hours(4) \/ st >= 8)
           /\ (hr > 85 \/ sl < Hours(6) \/ st >= 6) -> "medium"
      [] OTHER -> "low"

\* C1: for every triple both rule-based classifiers return exactly one alert
\* level, first match wins: high if heart_rate > 100 or sleep_hours < 4 or
\* stress_level >= 8, else medium if heart_rate > 85 or sleep_hours < 6 or
\* stress_level >= 6, else low; heart_rate 100 alone is medium and 101 high,
\* sleep_hours 4 alone is not high, stress_level 8 is high and 7 alone medium.
C1_FirstMatchAlert ==
    rule_out.called =>
        LET hr == rule_in.heart_rate
            sl == rule_in.sleep_hours
            st == rule_in.stress_level
        IN  /\ rule_out.api.alert_level = ExpectedAlert(hr, sl, st)
            /\ rule_out.agent.alert_level = ExpectedAlert(hr, sl, st)
            /\ rule_out.api.alert_level \in {"high", "medium", "low"}
            /\ (hr = 100 /\ sl >= Hours(4) /\ st < 8)
                  => rule_out.api.alert_level = "medium" /\ rule_out.agent.alert_level = "medium"
            /\ hr = 101
                  => rule_out.api.alert_level = "high" /\ rule_out.agent.alert_level = "high"
            /\ (sl = Hours(4) /\ hr <= 100 /\ st < 8)
                  => rule_out.api.alert_level # "high" /\ rule_out.agent.alert_level # "high"
            /\ st = 8
                  => rule_out.api.alert_level = "high" /\ rule_out.agent.alert_level = "high"
            /\ (st = 7 /\ hr <= 100 /\ sl >= Hours(4))
                  => rule_out.api.alert_level = "medium" /\ rule_out.agent.alert_level = "medium"

\* Both classifiers were applied to heart_rate 100 with sleep and stress quiet
\* and answered medium.
C1_Witness ==
    /\ rule_out.called
    /\ rule_in.heart_rate = 100
    /\ rule_in.sleep_hours = Hours(6)
    /\ rule_in.stress_level = 5
    /\ rule_out.api.alert_level = "medium"
    /\ rule_out.agent.alert_level = "medium"

\* C5: the rule-based fields are fixed by the tier.  High: should_train false,
\* intensity very low, duration 0 (API) and 15 (agent).  Medium: should_train
\* true, light cardio, intensity low, duration 30.  Low: should_train true,
\* moderate workout, intensity moderate, duration 45.  So should_train is
\* false exactly when the alert level is high.
C5_TierFields ==
    rule_out.called =>
        LET a == rule_out.api
            g == rule_out.agent
        IN  /\ a.alert_level = "high" =>
                  a.should_train = FALSE /\ a.intensity = "very low" /\ a.duration = 0
            /\ g.alert_level = "high" =>
                  /\ g.should_train = FALSE
                  /\ g.intensity_level = "very low"
                  /\ g.duration_minutes = 15
            /\ a.alert_level = "medium" =>
                  /\ a.should_train = TRUE
                  /\ a.workout = "Light cardio (walking, cycling)"
                  /\ a.intensity = "low"
                  /\ a.duration = 30
            /\ g.alert_level = "medium" =>
                  /\ g.should_train = TRUE
                  /\ g.recommended_workout = "Light cardio (walking, cycling)"
                  /\ g.intensity_level = "low"
                  /\ g.duration_minutes = 30
            /\ a.alert_level = "low" =>
                  /\ a.should_train = TRUE
                  /\ a.workout = "Moderate workout"
                  /\ a.intensity = "moderate"
                  /\ a.duration = 45
            /\ g.alert_level = "low" =>
                  /\ g.should_train = TRUE
                  /\ g.recommended_workout = "Moderate workout (running, weight training)"
                  /\ g.intensity_level = "moderate"
                  /\ g.duration_minutes = 45
            /\ (a.should_train = FALSE) <=> (a.alert_level = "high")
            /\ (g.should_train = FALSE) <=> (g.alert_level = "high")

\* A high-alert triple was classified: the API gave duration 0, the agent 15.
C5_Witness ==
    /\ rule_out.called
    /\ rule_out.api.alert_level = "high"
    /\ rule_out.api.duration = 0
    /\ rule_out.agent.alert_level = "high"
    /\ rule_out.agent.duration_minutes = 15
    /\ rule_out.agent.should_train = FALSE

----------------------------------------------------------------------------
(* Claims about the LLM-backed path and the CLI (SpecAgent). *)

HasOpen(text) == \E i \in 1..Len(text) : text[i] = "{"

HasClose(text) == \E i \in 1..Len(text) : text[i] = "}"

FirstOpen(text) == CHOOSE i \in 1..Len(text) : text[i] = "{" /\ \A j \in 1..(i - 1) : text[j] # "{"

LastClose(text) ==
    CHOOSE i \in 1..Len(text) : text[i] = "}" /\ \A j \in (i + 1)..Len(text) : text[j] # "}"

\* The text between the first opening and the last closing brace is one
\* well-formed object.
WellFormed(text) ==
    /\ HasOpen(text)
    /\ HasClose(text)
    /\ FirstOpen(text) < LastClose(text)
    /\ \A i \in (FirstOpen(text) + 1)..(LastClose(text) - 1) : text[i] \in PairTokens

\* The indices of the members of a well-formed reply's object.
MemberIndices(text) == (FirstOpen(text) + 1)..(LastClose(text) - 1)

RequestMetricsEchoed ==
    /\ "input_metrics" \in DOMAIN result
    /\ DOMAIN result.input_metrics =
         {"heart_rate_bpm", "sleep_hours", "stress_level", "timestamp"}
    /\ result.input_metrics.heart_rate_bpm = request.heart_rate
    /\ result.input_metrics.sleep_hours = request.sleep_hours
    /\ result.input_metrics.stress_level = request.stress_level
    /\ result.input_metrics.timestamp \in Timestamps

\* The returned record is the rule-based recommendation for the request.
ResultIsRuleBased ==
    /\ RequestMetricsEchoed
    /\ result = get_fallback_recommendation(request.heart_rate, request.sleep_hours,
                    request.stress_level, result.input_metrics.timestamp)
    /\ result.alert_level =
         ExpectedAlert(request.heart_rate, request.sleep_hours, request.stress_level)
    /\ result.should_train =
         (ExpectedAlert(request.heart_rate, request.sleep_hours, request.stress_level)
            # "high")

\* The returned record is the hardcoded generic medium-alert record.
ResultIsGeneric ==
    /\ RequestMetricsEchoed
    /\ DOMAIN result =
         {"alert_level", "should_train", "alert_message", "recommended_workout",
          "intensity_level", "duration_minutes", "modifications", "recovery_tips",
          "input_metrics"}
    /\ result.alert_level = "medium"
    /\ result.should_train = TRUE
    /\ result.duration_minutes = 30
    /\ result.alert_message = "AI response format issue, using default recommendation"
    /\ result.recommended_workout = "Light cardio (30 min walk/jog)"

\* C2: when the external chat-completion call fails, it is not retried (one
\* call for the request), no exception leaves analyze_health_status, and the
\* returned record is the rule-based recommendation for the same inputs: its
\* alert level is high, medium or low and its should_train that of the tier.
C2_CallFailureFallsBack ==
    outcome.kind \in CallFailures =>
        /\ attempts = 1
        /\ raised = FALSE
        /\ ResultIsRuleBased
        /\ result.alert_level \in {"high", "medium", "low"}
        /\ result.should_train \in BOOLEAN

\* A call with a valid key timed out on a high-alert request and the rule-based
\* rest recommendation came back.
C2_Witness ==
    /\ outcome.kind = "timeout"
    /\ api_key \in ValidKeys
    /\ attempts = 1
    /\ raised = FALSE
    /\ result.alert_level = "high"
    /\ result.should_train = FALSE

\* C3 as stated: on a parse failure of the reply, no braces found or malformed
\* text between the first '{' and the last '}', the result is the generic
\* medium-alert record with input_metrics attached.
C3_ParseFailureIsGeneric ==
    (outcome.kind = "reply" /\ ~WellFormed(outcome.text)) => ResultIsGeneric

\* C3 amended: when the reply holds no '{' or no '}', the result is the generic
\* medium-alert record with input_metrics attached; when both are present and
\* the text between the first '{' and the last '}' is malformed, the result is
\* the rule-based recommendation for the same inputs.
C3_ParseFailurePaths ==
    (outcome.kind = "reply" /\ ~WellFormed(outcome.text)) =>
        /\ raised = FALSE
        /\ (~HasOpen(outcome.text) \/ ~HasClose(outcome.text)) => ResultIsGeneric
        /\ (HasOpen(outcome.text) /\ HasClose(outcome.text)) => ResultIsRuleBased

\* A reply with prose between its braces came back for a high-alert request
\* and the result was the rule-based rest recommendation, not the generic one.
C3_Witness ==
    /\ outcome.kind = "reply"
    /\ outcome.text = <<"{", "prose", "}">>
    /\ request.heart_rate = 105
    /\ result.alert_level = "high"
    /\ result.duration_minutes = 15

\* C10: on parse success the returned record is the parsed object with only
\* input_metrics added or overwritten: its keys are the reply's keys and
\* input_metrics, every other key has the value the model gave it, and an
\* alert_level of "rest" stays "rest".
C10_ParseSuccessFrame ==
    (outcome.kind = "reply" /\ WellFormed(outcome.text)) =>
        LET text == outcome.text
            lastOf(k) == CHOOSE i \in MemberIndices(text) :
                             /\ PairKey(text[i]) = k
                             /\ \A j \in MemberIndices(text) :
                                    j > i => PairKey(text[j]) # k
        IN  /\ raised = FALSE
            /\ RequestMetricsEchoed
            /\ DOMAIN result =
                 {PairKey(text[i]) : i \in MemberIndices(text)} \cup {"input_metrics"}
            /\ \A k \in DOMAIN result \ {"input_metrics"} :
                    result[k] = PairVal(text[lastOf(k)])
            /\ (\E i \in MemberIndices(text) : text[i] = "alert_level:rest")
                  => result.alert_level = "rest"

\* A reply whose object says alert_level "rest" and carries its own
\* input_metrics was parsed: "rest" came back and input_metrics was overwritten.
C10_Witness ==
    /\ outcome.kind = "reply"
    /\ outcome.text = <<"{", "alert_level:rest", "input_metrics:model", "}">>
    /\ result.alert_level = "rest"
    /\ result.input_metrics.heart_rate_bpm = request.heart_rate
    /\ DOMAIN result = {"alert_level", "input_metrics"}

\* C7 as stated: in credential-less mode (the CLI user typed no key) no
\* external call is ever attempted.
C7_NoExternalCallWithoutCredential ==
    fallback_banner => attempts = 0

\* C8 as stated: constructing the agent without a usable credential fails at
\* construction time, and an unusable credential is never first detected at
\* call time.
C8_ConstructionRejectsUnusableKey ==
    /\ (api_key # NoneValue /\ api_key \notin ValidKeys) => cli_pc = "crashed"
    /\ outcome.kind # "auth"

\* C8 amended: construction fails exactly when the openai package cannot be
\* imported; a key the service does not accept is accepted by the constructor
\* and first detected at call time inside analyze_health_status, where the
\* failure is caught and the rule-based recommendation returned.
C8_ConstructionFailsOnlyOnImport ==
    /\ (cli_pc = "crashed") <=> (api_key # NoneValue /\ ~openai_installed)
    /\ (api_key # NoneValue /\ openai_installed /\ api_key \notin ValidKeys)
          => cli_pc \in {"ready", "awaiting", "exited"}
    /\ outcome.kind = "auth" =>
          /\ api_key \notin ValidKeys
          /\ attempts = 1
          /\ raised = FALSE
          /\ ResultIsRuleBased

\* The agent built with "dummy-key" made its call, the service rejected the
\* key, and the rule-based recommendation came back.
C8_Witness ==
    /\ api_key = "dummy-key"
    /\ fallback_banner
    /\ outcome.kind = "auth"
    /\ raised = FALSE
    /\ result.alert_level = "low"

----------------------------------------------------------------------------
(* Claims about the HTTP handlers (SpecApi) and repeated calls (SpecRepeat). *)

\* The fields of a Recommendation, each under the names the two schemas use.
RequiredFields ==
    {{"alert_level"}, {"should_train"}, {"workout", "recommended_workout"},
     {"intensity", "intensity_level"}, {"duration", "duration_minutes"},
     {"message", "alert_message"}, {"modifications"}, {"recovery_tips"},
     {"input_metrics"}}

HasFullFieldSet(rec) == \A names \in RequiredFields : names \cap DOMAIN rec # {}

\* C4 as stated: every recommendation record exposed to a caller, on every
\* path (/recommend, /batch, /test, the agent's fallback, LLM parse success
\* and parse failure), has a key for each field of the full field set.
C4_FullFieldSetOnEveryPath ==
    /\ (result # NoResult /\ ~raised) => HasFullFieldSet(result)
    /\ (http_request.route = "/recommend" /\ http_response.status = 200)
          => HasFullFieldSet(http_response.body)
    /\ (http_request.route = "/batch" /\ http_response.status = 200)
          => \A i \in 1..Len(http_response.body.results) :
                 "error" \notin DOMAIN http_response.body.results[i]
                    => HasFullFieldSet(http_response.body.results[i])
    /\ (http_request.route = "/test" /\ http_response.status = 200)
          => HasFullFieldSet(http_response.body.recommendation)

\* C6: a /batch of N items in which the advisor fails on any subset answers
\* with exactly N entries in input order; each failing item is an entry with
\* an 'error' key at its own position, the other entries are the
\* recommendations they would be without the failure, and
\* total_requests = N = successful + failed.
C6_BatchIsolation ==
    (http_request.route = "/batch" /\ http_response # NoResponse) =>
        LET ms == http_request.metrics_list
            fs == http_request.faults
            ts == http_request.times
            body == http_response.body
            rs == http_response.body.results
        IN  /\ http_response.status = 200
            /\ Len(rs) = Len(ms)
            /\ \A i \in 1..Len(ms) :
                  /\ fs[i] =>
                        /\ "error" \in DOMAIN rs[i]
                        /\ rs[i].user_id = ms[i].user_id
                        /\ rs[i].heart_rate = ms[i].heart_rate
                        /\ rs[i].sleep_hours = ms[i].sleep_hours
                        /\ rs[i].stress_level = ms[i].stress_level
                  /\ ~fs[i] =>
                        /\ "error" \notin DOMAIN rs[i]
                        /\ rs[i] = batch_entry(ms[i], FALSE, ts[i])
                        /\ rs[i].alert_level =
                             ExpectedAlert(ms[i].heart_rate, ms[i].sleep_hours,
                                           ms[i].stress_level)
                        /\ rs[i].user_id = ms[i].user_id
            /\ body.total_requests = Len(ms)
            /\ body.successful + body.failed = Len(ms)
            /\ body.failed = Cardinality({i \in 1..Len(ms) : fs[i]})

\* A batch of three whose middle item failed was answered: the middle entry
\* carries the error, its neighbours their recommendations.
C6_Witness ==
    /\ http_request.route = "/batch"
    /\ http_request.faults = <<FALSE, TRUE, FALSE>>
    /\ http_request.metrics_list[1].heart_rate = 105
    /\ http_request.metrics_list[3].heart_rate = 72
    /\ http_response.status = 200
    /\ "error" \in DOMAIN http_response.body.results[2]
    /\ http_response.body.results[1].alert_level = "high"
    /\ http_response.body.results[3].alert_level = "low"
    /\ http_response.body.failed = 1

\* A record without the timestamp of its input_metrics.
WithoutTimestamp(rec) ==
    IF "input_metrics" \in DOMAIN rec
    THEN [rec EXCEPT !.input_metrics =
             [k \in DOMAIN rec.input_metrics \ {"timestamp"} |-> rec.input_metrics[k]]]
    ELSE rec

\* C9: the rule-based recommendation is a function of the triple alone: two
\* calls of the same classifier with the same triple return identical records
\* except for timestamps, whatever previous_workout was passed and whatever
\* was called before.
C9_SameTripleSameAnswer ==
    (/\ Len(call_log) = 2
     /\ call_log[1].impl = call_log[2].impl
     /\ call_log[1].metrics = call_log[2].metrics)
        => WithoutTimestamp(call_log[1].out) = WithoutTimestamp(call_log[2].out)

\* FallbackAdvisor was called twice on the same low-alert triple with different
\* previous_workout values and answered the same.
C9_Witness ==
    /\ Len(call_log) = 2
    /\ call_log[1].impl = "FallbackAdvisor"
    /\ call_log[2].impl = "FallbackAdvisor"
    /\ call_log[1].metrics = call_log[2].metrics
    /\ call_log[1].previous_workout # call_log[2].previous_workout
    /\ call_log[1].out.alert_level = "low"
    /\ call_log[1].out = call_log[2].out

----------------------------------------------------------------------------
(* Claims relating the two rule-based classifiers (SpecRules). *)

\* C11: the two rule-based implementations agree: on every triple
\* FallbackAdvisor and _get_fallback_recommendation return the same
\* alert_level, the same should_train and the same intensity, and the same
\* duration unless the alert level is high, where they give 0 and 15.
C11_ImplementationsAgree ==
    rule_out.called =>
        /\ rule_out.api.alert_level = rule_out.agent.alert_level
        /\ rule_out.api.should_train = rule_out.agent.should_train
        /\ rule_out.api.intensity = rule_out.agent.intensity_level
        /\ rule_out.api.alert_level # "high"
              => rule_out.api.duration = rule_out.agent.duration_minutes
        /\ rule_out.api.alert_level = "high"
              => rule_out.api.duration = 0 /\ rule_out.agent.duration_minutes = 15

\* Both classifiers were applied to a triple that only stress_level 8 makes
\* high, and both answered high, with durations 0 and 15.
C11_Witness ==
    /\ rule_out.called
    /\ rule_in.heart_rate <= 85
    /\ rule_in.sleep_hours >= Hours(6)
    /\ rule_in.stress_level = 8
    /\ rule_out.api.alert_level = "high"
    /\ rule_out.agent.alert_level = "high"
    /\ rule_out.api.duration = 0
    /\ rule_out.agent.duration_minutes = 15

----------------------------------------------------------------------------
(* Claims about the history (SpecHistory). *)

\* What every step of the history endpoints does.
C12_HistoryStep ==
    LET old == workout_history
        new == workout_history'
        resp == history_response'
    IN  /\ Len(new) >= Len(old)
        /\ SubSeq(new, 1, Len(old)) = old
        /\ \A k \in 1..Len(new) : new[k].id = k
        /\ resp.route = "POST /history" =>
              /\ Len(new) = Len(old) + 1
              /\ resp.body.entry_id = Len(new)
              /\ new[Len(new)].user_id =
                   IF resp.user_id \in {NoneValue, ""} THEN "anonymous" ELSE resp.user_id
        /\ resp.route = "GET /history" =>
              /\ new = old
              /\ (resp.user_id # NoneValue /\ resp.user_id # "") =>
                    LET es == resp.body.entries
                    IN  /\ \A i \in 1..Len(es) :
                              /\ es[i].id \in 1..Len(old)
                              /\ es[i] = old[es[i].id]
                              /\ es[i].user_id = resp.user_id
                        /\ \A i \in 1..(Len(es) - 1) : es[i].id < es[i + 1].id
                        /\ Len(es) =
                             Cardinality({k \in 1..Len(old) : old[k].user_id = resp.user_id})

\* C12: after any sequence of POST /history and GET /history requests the
\* history is append-only and its k-th entry has id k; GET /history never
\* changes the list, and with a non-empty user_id it returns exactly the
\* stored entries of that user_id in insertion order; an entry saved without
\* a user_id is stored under "anonymous".
C12_HistoryAppendOnly == [][C12_HistoryStep]_vars

\* Three entries were saved, the first and the third without a user_id, and
\* GET /history?user_id=anonymous returned exactly those two, in order.
C12_Witness ==
    /\ Len(workout_history) = 3
    /\ workout_history[1].metrics.user_id = NoneValue
    /\ workout_history[2].metrics.user_id = "u1"
    /\ workout_history[3].metrics.user_id = ""
    /\ history_response.route = "GET /history"
    /\ history_response.user_id = "anonymous"
    /\ Len(history_response.body.entries) = 2
    /\ history_response.body.entries[1].id = 1
    /\ history_response.body.entries[2].id = 3

----------------------------------------------------------------------------
(* Claims about two triples ordered by risk (SpecPairs). *)

Severity(alert_level) ==
    CASE alert_level = "low" -> 1
      [] alert_level = "medium" -> 2
      [] alert_level = "high" -> 3

\* Triple m2 is at least as risky as m1 in every metric.
RiskOrdered(m1, m2) ==
    /\ m1.heart_rate <= m2.heart_rate
    /\ m1.sleep_hours >= m2.sleep_hours
    /\ m1.stress_level <= m2.stress_level

\* C13: the rule-based classification is monotone in risk: when triple 2 has
\* a heart rate no lower, sleep no longer and stress no lower than triple 1,
\* each classifier's alert level for triple 2 is at least as severe as for
\* triple 1 (low < medium < high) and its duration is no longer.
C13_MonotoneInRisk ==
    (Len(call_log) = 2 /\ RiskOrdered(call_log[1].metrics, call_log[2].metrics)) =>
        /\ Severity(call_log[1].api.alert_level) <= Severity(call_log[2].api.alert_level)
        /\ call_log[2].api.duration <= call_log[1].api.duration
        /\ Severity(call_log[1].agent.alert_level)
              <= Severity(call_log[2].agent.alert_level)
        /\ call_log[2].agent.duration_minutes <= call_log[1].agent.duration_minutes

\* Two triples that differ only in stress_level, 7 then 9: the first is
\* medium with 30 minutes, the second high with 0 and 15 minutes.
C13_Witness ==
    /\ Len(call_log) = 2
    /\ RiskOrdered(call_log[1].metrics, call_log[2].metrics)
    /\ call_log[1].metrics.heart_rate = call_log[2].metrics.heart_rate
    /\ call_log[1].metrics.sleep_hours = call_log[2].metrics.sleep_hours
    /\ call_log[1].metrics.stress_level = 7
    /\ call_log[2].metrics.stress_level = 9
    /\ call_log[1].api.alert_level = "medium"
    /\ call_log[1].agent.alert_level = "medium"
    /\ call_log[2].api.alert_level = "high"
    /\ call_log[2].agent.alert_level = "high"
    /\ call_log[1].api.duration = 30
    /\ call_log[2].api.duration = 0
    /\ call_log[1].agent.duration_minutes = 30
    /\ call_log[2].agent.duration_minutes = 15

====
